---- MODULE Spec2Model ----
(***************************************************************************)
(* Model of the KMRL document test suite (test_kmrl_documents.py): the     *)
(* directory scan and classification of get_test_documents, the per-file   *)
(* conversion loop of test_category / test_document_conversion, the CLI    *)
(* exercise of test_cli_interface, the report of generate_kmrl_report, the *)
(* persisting of save_results, and main, which sequences them.             *)
(*                                                                         *)
(* File names are sequences of one-character strings, so that suffix,      *)
(* lower() and the substring test are computed as Python computes them.    *)
(***************************************************************************)
EXTENDS Integers, Sequences, FiniteSets, TLC

\* ------------------------------------------------------------------ bounds

\* The largest number of entries of the test-docs directory.
MaxEntries == 4

\* The longest list of outcome records handed to the report functions when
\* they are exercised on their own.
MaxUnitLen == 3

\* ------------------------------------------------------- Python strings

UpperChars == <<"A", "B", "C", "D", "E", "F", "G", "H", "I", "J", "K", "L", "M",
                "N", "O", "P", "Q", "R", "S", "T", "U", "V", "W", "X", "Y", "Z">>

LowerChars == <<"a", "b", "c", "d", "e", "f", "g", "h", "i", "j", "k", "l", "m",
                "n", "o", "p", "q", "r", "s", "t", "u", "v", "w", "x", "y", "z">>

\* str.lower() on one character.
LowerChar(c) ==
    IF \E i \in 1..26 : UpperChars[i] = c
    THEN LowerChars[CHOOSE i \in 1..26 : UpperChars[i] = c]
    ELSE c

\* str.lower()
Lower(s) == [i \in 1..Len(s) |-> LowerChar(s[i])]

\* sub in s
Contains(s, sub) ==
    \E i \in 1..(Len(s) - Len(sub) + 1) : SubSeq(s, i, i + Len(sub) - 1) = sub

\* str.rfind(c), 1-based; 0 when c does not occur.
RFind(s, c) ==
    IF \E i \in 1..Len(s) : s[i] = c
    THEN CHOOSE i \in 1..Len(s) : s[i] = c /\ \A j \in (i + 1)..Len(s) : s[j] # c
    ELSE 0

\* pathlib's PurePath.suffix: the last dot of the name and what follows it,
\* unless that dot is the first or the last character of the name.
Suffix(name) ==
    LET i == RFind(name, ".")
    IN  IF 1 < i /\ i < Len(name) THEN SubSeq(name, i, Len(name)) ELSE <<>>

\* The characters str.strip() removes that a TLA+ string can hold.
Whitespace == {" ", "\t", "\n", "\r", "\f"}

\* str.strip(): what lies between the first and the last character that is
\* not whitespace.
Strip(s) ==
    LET keep == {i \in 1..Len(s) : s[i] \notin Whitespace}
    IN  IF keep = {} THEN <<>>
        ELSE SubSeq(s, CHOOSE i \in keep : \A j \in keep : i <= j,
                       CHOOSE i \in keep : \A j \in keep : j <= i)

\* The length a preview keeps, lines 116 and 214.
PreviewLimit == 200

\* The mutant of Preview that cuts the text and marks nothing.
PreviewNoEllipsis(text) ==
    IF Len(text) > PreviewLimit THEN SubSeq(text, 1, PreviewLimit) ELSE text

\* text[:200] + "..." if len(text) > 200 else text
Preview(text) ==
    IF Len(text) > PreviewLimit
    THEN SubSeq(text, 1, PreviewLimit) \o <<".", ".", ".">>
    ELSE text

\* --------------------------------------------------------- classification

ExtJpg  == <<".", "j", "p", "g">>
ExtJpeg == <<".", "j", "p", "e", "g">>
ExtPng  == <<".", "p", "n", "g">>
ExtDwg  == <<".", "d", "w", "g">>
ExtDocx == <<".", "d", "o", "c", "x">>
ExtPptx == <<".", "p", "p", "t", "x">>
ExtCsv  == <<".", "c", "s", "v">>
ExtTxt  == <<".", "t", "x", "t">>
ExtMd   == <<".", "m", "d">>

StrMal         == <<"m", "a", "l">>
StrHandwrite   == <<"h", "a", "n", "d", "w", "r", "i", "t", "e">>
StrHandwritten == <<"h", "a", "n", "d", "w", "r", "i", "t", "t", "e", "n">>
StrScan        == <<"s", "c", "a", "n">>

\* The mutant of Classify that tests "scan" before "mal".
ClassifyScanFirst(file_name) ==
    LET file_ext == Lower(Suffix(file_name))
        lname    == Lower(file_name)
    IN  IF file_ext \in {ExtJpg, ExtJpeg, ExtPng}
        THEN IF Contains(lname, StrScan) THEN "scanned_document"
             ELSE IF Contains(lname, StrMal) THEN "malayalam_ocr"
             ELSE IF Contains(lname, StrHandwrite) \/ Contains(lname, StrHandwritten)
                  THEN "handwritten_ocr"
             ELSE "image_ocr"
        ELSE IF file_ext = ExtDwg THEN "engineering_drawing"
        ELSE IF file_ext = ExtDocx THEN "word_document"
        ELSE IF file_ext = ExtPptx THEN "powerpoint_presentation"
        ELSE IF file_ext = ExtCsv THEN "data_file"
        ELSE "other"

\* The mutant of Classify without the final else: a name that matches
\* nothing keeps no category.
ClassifyNoFallThrough(file_name) ==
    LET file_ext == Lower(Suffix(file_name))
        lname    == Lower(file_name)
    IN  IF file_ext \in {ExtJpg, ExtJpeg, ExtPng}
        THEN IF Contains(lname, StrMal) THEN "malayalam_ocr"
             ELSE IF Contains(lname, StrHandwrite) \/ Contains(lname, StrHandwritten)
                  THEN "handwritten_ocr"
             ELSE IF Contains(lname, StrScan) THEN "scanned_document"
             ELSE "image_ocr"
        ELSE IF file_ext = ExtDwg THEN "engineering_drawing"
        ELSE IF file_ext = ExtDocx THEN "word_document"
        ELSE IF file_ext = ExtPptx THEN "powerpoint_presentation"
        ELSE IF file_ext = ExtCsv THEN "data_file"
        ELSE "unbound"

\* get_test_documents, lines 53-75: the category of one file name.
Classify(file_name) ==
    LET file_ext == Lower(Suffix(file_name))
        lname    == Lower(file_name)
    IN  IF file_ext \in {ExtJpg, ExtJpeg, ExtPng}
        THEN IF Contains(lname, StrMal) THEN "malayalam_ocr"
             ELSE IF Contains(lname, StrHandwrite) \/ Contains(lname, StrHandwritten)
                  THEN "handwritten_ocr"
             ELSE IF Contains(lname, StrScan) THEN "scanned_document"
             ELSE "image_ocr"
        ELSE IF file_ext = ExtDwg THEN "engineering_drawing"
        ELSE IF file_ext = ExtDocx THEN "word_document"
        ELSE IF file_ext = ExtPptx THEN "powerpoint_presentation"
        ELSE IF file_ext = ExtCsv THEN "data_file"
        ELSE "other"

\* ------------------------------------------------- the test-docs directory

\* One character of text per letter.
Chars(n, c) == [k \in 1..n |-> c]

\* One entry of the directory: its name, what it is (a regular file, a
\* directory, a symbolic link to a regular file), its st_size, the text and
\* the markdown docling extracts from it when the conversion succeeds, and,
\* of a directory, the entries inside it.
File(name, kind, size, text, markdown) ==
    [name |-> name, kind |-> kind, size |-> size, text |-> text,
     markdown |-> markdown, children |-> <<>>]

Dir(name, children) ==
    [name |-> name, kind |-> "dir", size |-> 4096, text |-> <<>>,
     markdown |-> <<>>, children |-> children]

EntryReportDocx == File(<<"r", "e", "p", "o", "r", "t", ".", "d", "o", "c", "x">>,
                        "file", 1200, <<"H", "i">>, <<"#", " ", "H", "i">>)
EntryMemoDocx   == File(<<"m", "e", "m", "o", ".", "d", "o", "c", "x">>,
                        "file", 5000, <<"m">>, <<"m">>)
EntryDataCsv    == File(<<"d", "a", "t", "a", ".", "c", "s", "v">>,
                        "file", 80, <<"1", ",", "2">>, <<"|", "1", "|", "2", "|">>)
EntryScanLinkPng == File(<<"s", "c", "a", "n", "_", "l", "i", "n", "k", ".", "p", "n", "g">>,
                         "link_file", 300, <<" ", "\n">>, <<>>)
EntryInnerDocx  == File(<<"i", "n", "n", "e", "r", ".", "d", "o", "c", "x">>,
                        "file", 700, <<"i">>, <<"i">>)
EntryArchive    == Dir(<<"a", "r", "c", "h", "i", "v", "e">>, <<EntryInnerDocx>>)
EntryNotesTxt   == File(<<"n", "o", "t", "e", "s", ".", "t", "x", "t">>,
                        "file", 40, <<"n">>, <<"n">>)
EntryReadmeMD   == File(<<"R", "E", "A", "D", "M", "E", ".", "M", "D">>,
                        "file", 60, <<"r">>, <<"r">>)
EntrySubMd      == Dir(<<"s", "u", "b", ".", "m", "d">>, <<>>)

\* What test-docs may hold in a whole run: two documents of one category,
\* a data file, a symbolic link to an image and a subdirectory.
PoolDocs == {EntryReportDocx, EntryMemoDocx, EntryDataCsv, EntryScanLinkPng,
             EntryArchive}

\* What test-docs may hold where the CLI exercise is followed: text-like
\* entries, one of them a directory, and a document that is not text-like.
PoolCli  == {EntryDataCsv, EntryNotesTxt, EntryReadmeMD, EntrySubMd,
             EntryReportDocx}

\* The directory listings over a pool: its entries are distinct and iterdir
\* yields them in an arbitrary order.
Listings(pool) ==
    {l \in UNION {[1..n -> pool] : n \in 0..MaxEntries} :
        \A i, j \in DOMAIN l : i # j => l[i] # l[j]}

\* Path.is_file(): true of a regular file and of a symbolic link that
\* resolves to one.
IsFile(e) == e.kind \in {"file", "link_file"}

\* ------------------------------------------------------------------ state

VARIABLES
    import_ok,      \* whether docling can be imported
    dir_state,      \* test-docs: "missing", "unlistable" or "ok"
    listing,        \* what iterdir yields, in its order
    report_file,    \* kmrl_docling_test_results.json on disk
    pc,             \* main's position
    documents,      \* get_test_documents' dict, in insertion order
    cat_i,          \* main's loop over documents.items()
    doc_i,          \* test_category's loop over the category's documents
    results,        \* test_category's results list
    all_results,    \* main's all_results dict, in insertion order
    convert_log,    \* the calls of converter.convert so far: file and outcome
    cli_test_files, \* test_cli_interface's selection
    cli_i,          \* test_cli_interface's loop over the selection
    cli_results,    \* test_cli_interface's cli_results list
    cli_log,        \* the calls of subprocess.run so far: file, timeout, outcome
    summaries,      \* what test_category printed, one summary per category
    report,         \* what generate_kmrl_report printed
    raised_in,      \* the call whose exception nothing caught, or "none"
    exit_code,      \* the process's exit code: <<>> until it ends, then <<code>>
    clock,          \* datetime.now(): the number of readings so far
    python_version, \* setup_test_env.py: sys.version_info, <<major, minor, micro>>
    venv_exists,    \* setup_test_env.py: whether docling_test_env exists
    setup_pc,       \* setup_test_env.py: its main's position, "idle" when not run
    setup_log,      \* setup_test_env.py: the commands run so far and their outcomes
    setup_exit      \* setup_test_env.py: its exit code, <<>> until it ends

vars == <<import_ok, dir_state, listing, report_file, pc, documents, cat_i, doc_i,
          results, all_results, convert_log, cli_test_files, cli_i,
          cli_results, cli_log, summaries, report, raised_in, exit_code, clock,
          python_version, venv_exists, setup_pc, setup_log, setup_exit>>

\* What the test suite reads and never changes: the installation, the
\* directory, and what the setup script left.
env == <<import_ok, dir_state, listing,
         python_version, venv_exists, setup_pc, setup_log, setup_exit>>

\* -------------------------------------------------- get_test_documents

\* The mutant of DictAppend that assigns a new list where it should append.
DictAppendOverwrite(d, category, item) ==
    IF \E i \in DOMAIN d : d[i].category = category
    THEN [i \in DOMAIN d |->
            IF d[i].category = category
            THEN [d[i] EXCEPT !.docs = <<item>>]
            ELSE d[i]]
    ELSE Append(d, [category |-> category, docs |-> <<item>>])

\* The mutant of DictAppend that groups as itertools.groupby does: a file
\* joins its category only when that category is the latest one.
DictAppendAdjacent(d, category, item) ==
    IF d # <<>> /\ d[Len(d)].category = category
    THEN [d EXCEPT ![Len(d)].docs = Append(@, item)]
    ELSE Append(d, [category |-> category, docs |-> <<item>>])

\* documents[category].append(...) on the insertion-ordered dict, a sequence
\* of [category, docs].
DictAppend(d, category, item) ==
    IF \E i \in DOMAIN d : d[i].category = category
    THEN [i \in DOMAIN d |->
            IF d[i].category = category
            THEN [d[i] EXCEPT !.docs = Append(@, item)]
            ELSE d[i]]
    ELSE Append(d, [category |-> category, docs |-> <<item>>])

\* The mutant of ScanEntry that descends into a subdirectory (a subdirectory
\* of the model holds at most one file).
ScanEntryRecursive(d, e) ==
    IF IsFile(e)
    THEN DictAppend(d, Classify(e.name),
                    [name |-> e.name, size |-> e.size,
                     extension |-> Lower(Suffix(e.name))])
    ELSE IF e.children # <<>>
         THEN DictAppend(d, Classify(e.children[1].name),
                         [name |-> e.children[1].name, size |-> e.children[1].size,
                          extension |-> Lower(Suffix(e.children[1].name))])
         ELSE d

\* The loop body of get_test_documents on one directory entry.
ScanEntry(d, e) ==
    IF IsFile(e)
    THEN DictAppend(d, Classify(e.name),
                    [name |-> e.name, size |-> e.size,
                     extension |-> Lower(Suffix(e.name))])
    ELSE d

RECURSIVE ScanFrom(_, _, _)
ScanFrom(l, i, d) ==
    IF i > Len(l) THEN d ELSE ScanFrom(l, i + 1, ScanEntry(d, l[i]))

\* The mutant of GetTestDocumentsOf that starts from a dict holding a
\* category with no file yet.
GetTestDocumentsPreset(l) ==
    ScanFrom(l, 1, <<[category |-> "other", docs |-> <<>>]>>)

\* get_test_documents on an existing, listable directory.
GetTestDocumentsOf(l) == ScanFrom(l, 1, <<>>)

\* --------------------------------------------- test_document_conversion

\* The file a path of the directory leads to.
FileAt(l, name) == l[CHOOSE i \in DOMAIN l : l[i].name = name]

\* What one attempt on a file can do: converter.convert and both exports
\* return, with the file's text and markdown, or converter.convert raises,
\* or an export raises.
ConverterOutcomes(file) ==
    {[kind |-> "ok", text |-> file.text, markdown |-> file.markdown],
     [kind |-> "convert_raises", text |-> <<>>, markdown |-> <<>>],
     [kind |-> "export_raises", text |-> <<>>, markdown |-> <<>>]}

\* The mutant of ConversionRecord whose error_info leaves out the size of
\* the file.
ConversionRecordBareError(doc_info, category, outcome, now) ==
    IF outcome.kind = "ok"
    THEN [file_name |-> doc_info.name, category |-> category,
          file_size |-> doc_info.size, conversion_successful |-> TRUE,
          markdown_length |-> Len(outcome.markdown),
          text_length |-> Len(outcome.text),
          has_content |-> Len(Strip(outcome.text)) > 0,
          preview |-> Preview(outcome.text),
          timestamp |-> now]
    ELSE [file_name |-> doc_info.name, category |-> category,
          conversion_successful |-> FALSE,
          error |-> "str(e)",
          error_type |-> IF outcome.kind = "convert_raises"
                         THEN "ConversionError" ELSE "ExportError",
          timestamp |-> now]

\* The record test_document_conversion returns: success_info (lines
\* 108-118) when nothing raised, error_info from the except clause (lines
\* 133-141) otherwise; now is what datetime.now() gives.
ConversionRecord(doc_info, category, outcome, now) ==
    IF outcome.kind = "ok"
    THEN [file_name |-> doc_info.name, category |-> category,
          file_size |-> doc_info.size, conversion_successful |-> TRUE,
          markdown_length |-> Len(outcome.markdown),
          text_length |-> Len(outcome.text),
          has_content |-> Len(Strip(outcome.text)) > 0,
          preview |-> Preview(outcome.text),
          timestamp |-> now]
    ELSE [file_name |-> doc_info.name, category |-> category,
          file_size |-> doc_info.size, conversion_successful |-> FALSE,
          error |-> "str(e)",
          error_type |-> IF outcome.kind = "convert_raises"
                         THEN "ConversionError" ELSE "ExportError",
          timestamp |-> now]

\* ------------------------------------------------------------ the rates

\* sum(1 for r in results if r['conversion_successful'])
Successful(rs) == Cardinality({i \in DOMAIN rs : rs[i].conversion_successful})

\* The mutant of RateTenths that cuts the digits after the first decimal.
RateTenthsTruncated(s, n) == (1000 * s) \div n

\* f"{(s / n * 100):.1f}" in tenths of a percent, n > 0: the nearest tenth,
\* a tie going to the even one (exact for n < 80).
RateTenths(s, n) ==
    LET q == (1000 * s) \div n
        r == (1000 * s) % n
    IN  IF 2 * r > n THEN q + 1
        ELSE IF 2 * r < n THEN q
        ELSE IF q % 2 = 0 THEN q ELSE q + 1

\* test_category's summary, lines 161-167: the division is not guarded.
CategorySummary(rs) ==
    IF Len(rs) = 0
    THEN [raised |-> TRUE, successful |-> 0, failed |-> 0, rate |-> 0]
    ELSE [raised |-> FALSE,
          successful |-> Successful(rs),
          failed |-> Len(rs) - Successful(rs),
          rate |-> RateTenths(Successful(rs), Len(rs))]

\* ------------------------------------------------- generate_kmrl_report

RECURSIVE TotalFrom(_, _)
\* sum(len(results) for results in all_results.values())
TotalFrom(ar, i) ==
    IF i > Len(ar) THEN 0 ELSE Len(ar[i].results) + TotalFrom(ar, i + 1)

\* The mutant of TotalDocuments that counts the categories.
TotalDocumentsCategories(ar) == Len(ar)

TotalDocuments(ar) == TotalFrom(ar, 1)

RECURSIVE SuccessfulFrom(_, _)
\* sum(sum(1 for r in results if r['conversion_successful']) for results in ...)
SuccessfulFrom(ar, i) ==
    IF i > Len(ar) THEN 0 ELSE Successful(ar[i].results) + SuccessfulFrom(ar, i + 1)

TotalSuccessful(ar) == SuccessfulFrom(ar, 1)

\* category in all_results
DictHas(ar, category) == \E i \in DOMAIN ar : ar[i].category = category

\* all_results[category]
DictGet(ar, category) == ar[CHOOSE i \in DOMAIN ar : ar[i].category = category].results

\* One line of the category breakdown, lines 268-277: this division is guarded.
BreakdownLine(entry) ==
    LET rs == entry.results
    IN  [category |-> entry.category,
         successful |-> Successful(rs),
         total |-> Len(rs),
         success_rate |-> IF Len(rs) > 0 THEN RateTenths(Successful(rs), Len(rs)) ELSE 0,
         failed_docs |-> SelectSeq(rs, LAMBDA r : ~r.conversion_successful)]

CriticalCategories == <<"word_document", "powerpoint_presentation", "data_file">>

\* The mutant of CriticalSuccess that takes an absent critical category as a
\* failed one.
CriticalSuccessAllPresent(ar) ==
    \A k \in DOMAIN CriticalCategories :
        /\ DictHas(ar, CriticalCategories[k])
        /\ Successful(DictGet(ar, CriticalCategories[k])) # 0

\* critical_success after the loop of lines 291-301.
CriticalSuccess(ar) ==
    \A k \in DOMAIN CriticalCategories :
        DictHas(ar, CriticalCategories[k])
            => Successful(DictGet(ar, CriticalCategories[k])) # 0

\* total_successful >= total_documents * 0.7, line 334. The double nearest to
\* 0.7 lies below 0.7, so the product never exceeds 7 * total / 10 and lies
\* within a fraction of a unit of it: for integers the comparison is that of
\* 10 * successful with 7 * total.
AtLeastSeventyPercent(successful, total) == 10 * successful >= 7 * total

\* What generate_kmrl_report prints, or the ZeroDivisionError of line 263.
GenerateKmrlReport(ar, cr) ==
    LET total_documents  == TotalDocuments(ar)
        total_successful == TotalSuccessful(ar)
    IN  IF total_documents = 0
        THEN [printed |-> TRUE, raised |-> TRUE]
        ELSE [printed |-> TRUE, raised |-> FALSE,
              total_documents |-> total_documents,
              total_successful |-> total_successful,
              total_failed |-> total_documents - total_successful,
              overall_rate |-> RateTenths(total_successful, total_documents),
              breakdown |-> [i \in DOMAIN ar |-> BreakdownLine(ar[i])],
              cli_successful |->
                  Cardinality({i \in DOMAIN cr : cr[i].cli_successful}),
              critical_success |-> CriticalSuccess(ar),
              recommendation |->
                  IF CriticalSuccess(ar)
                     /\ AtLeastSeventyPercent(total_successful, total_documents)
                  THEN "READY" ELSE "NEEDS_CONFIGURATION"]

NoReport == [printed |-> FALSE]

\* ---------------------------------------------------- test_cli_interface

CliExtensions == {ExtTxt, ExtCsv, ExtMd}

RECURSIVE CliSelectFrom(_, _, _)
\* The loop of lines 183-187: entries are taken in listing order, whatever
\* they are, and the loop breaks once three are taken.
CliSelectFrom(l, i, acc) ==
    IF i > Len(l) \/ Len(acc) >= 3 THEN acc
    ELSE CliSelectFrom(l, i + 1,
                       IF Lower(Suffix(l[i].name)) \in CliExtensions
                       THEN Append(acc, l[i]) ELSE acc)

\* The mutant of CliSelect that compares the suffix as it is written.
CliSelectCaseSensitive(l) ==
    LET q == SelectSeq(l, LAMBDA e : Suffix(e.name) \in CliExtensions)
    IN  SubSeq(q, 1, IF Len(q) < 3 THEN Len(q) ELSE 3)

CliSelect(l) == CliSelectFrom(l, 1, <<>>)

\* The timeout handed to subprocess.run, line 206.
CliTimeout == 30

\* What str(e) can be of an exception subprocess.run raises.
ExceptionMessages == {"[Errno 8] Exec format error", "Timeout"}

\* What one subprocess.run can do: return code 0, another return code with
\* its stderr, the timeout, any other exception with its message.
CliOutcomes ==
    {[kind |-> "ok", message |-> ""],
     [kind |-> "nonzero", message |-> "stderr"],
     [kind |-> "timeout", message |-> ""]}
    \cup {[kind |-> "exception", message |-> m] : m \in ExceptionMessages}

\* The mutant of CliRecord that records a timeout as the other exceptions
\* are recorded, with the exception's own message.
CliRecordTimeoutMessage(file_path, outcome) ==
    CASE outcome.kind = "ok" ->
            [file_name |-> file_path.name, cli_successful |-> TRUE]
      [] outcome.kind = "nonzero" ->
            [file_name |-> file_path.name, cli_successful |-> FALSE,
             error |-> outcome.message, return_code |-> 1]
      [] OTHER ->
            [file_name |-> file_path.name, cli_successful |-> FALSE,
             error |-> IF outcome.kind = "timeout"
                       THEN "timed out after 30 seconds" ELSE outcome.message]

\* The mutant of CliRecord that does not look at the return code: a call
\* that returned is recorded as a success.
CliRecordIgnoresReturnCode(file_path, outcome) ==
    CASE outcome.kind \in {"ok", "nonzero"} ->
            [file_name |-> file_path.name, cli_successful |-> TRUE]
      [] outcome.kind = "timeout" ->
            [file_name |-> file_path.name, cli_successful |-> FALSE,
             error |-> "Timeout"]
      [] OTHER ->
            [file_name |-> file_path.name, cli_successful |-> FALSE,
             error |-> outcome.message]

\* The record appended to cli_results, lines 209-242 (output_length and
\* preview are left out).
CliRecord(file_path, outcome) ==
    CASE outcome.kind = "ok" ->
            [file_name |-> file_path.name, cli_successful |-> TRUE]
      [] outcome.kind = "nonzero" ->
            [file_name |-> file_path.name, cli_successful |-> FALSE,
             error |-> outcome.message, return_code |-> 1]
      [] outcome.kind = "timeout" ->
            [file_name |-> file_path.name, cli_successful |-> FALSE,
             error |-> "Timeout"]
      [] OTHER ->
            [file_name |-> file_path.name, cli_successful |-> FALSE,
             error |-> outcome.message]

\* ---------------------------------------------------------- save_results

RECURSIVE FailedFrom(_, _)
\* sum(sum(1 for r in results if not r['conversion_successful']) for ...)
FailedFrom(ar, i) ==
    IF i > Len(ar) THEN 0
    ELSE (Len(ar[i].results) - Successful(ar[i].results)) + FailedFrom(ar, i + 1)

\* The mutant of ReportData whose total_failed counts the categories with a
\* failed record.
ReportDataFailedCategories(ar, cr, now) ==
    [test_timestamp |-> now,
     total_documents |-> TotalDocuments(ar),
     categories |-> ar,
     cli_results |-> cr,
     summary |-> [total_successful |-> TotalSuccessful(ar),
                  total_failed |->
                      Cardinality({i \in DOMAIN ar :
                                      Successful(ar[i].results) < Len(ar[i].results)})]]

\* report_data, lines 351-367 (docling_version, the same in every run of one
\* installation, is left out); now is what datetime.now() gives.
ReportData(ar, cr, now) ==
    [test_timestamp |-> now,
     total_documents |-> TotalDocuments(ar),
     categories |-> ar,
     cli_results |-> cr,
     summary |-> [total_successful |-> TotalSuccessful(ar),
                  total_failed |-> FailedFrom(ar, 1)]]

\* kmrl_docling_test_results.json as it is before the run: absent, or what
\* an earlier run left.
PreviousFile == [status |-> "previous", data |-> <<>>]

\* What open(..., 'w') and json.dump can do: both succeed, open raises, or
\* a write raises after open has truncated the file.
WriteOutcomes == {"ok", "open_raises", "write_raises"}

\* The mutant of FileAfterWrite in which a failed write leaves the file as it
\* was, as a write to a temporary file renamed at the end would.
FileAfterWriteAtomic(before, data, outcome) ==
    IF outcome = "ok" THEN [status |-> "new", data |-> <<data>>] ELSE before

\* The mutant of FileAfterWrite that opens the file to append to it.
FileAfterWriteAppend(before, data, outcome) ==
    CASE outcome = "ok" -> [status |-> "new", data |-> Append(before.data, data)]
      [] outcome = "open_raises" -> before
      [] OTHER -> [status |-> "partial", data |-> before.data]

\* The file after the with block of lines 375-376.
FileAfterWrite(before, data, outcome) ==
    CASE outcome = "ok" -> [status |-> "new", data |-> <<data>>]
      [] outcome = "open_raises" -> before
      [] OTHER -> [status |-> "partial", data |-> <<>>]

\* The setup script is not run: the test suite runs on an installation with
\* some Python, set up before.
SetupIdle ==
    /\ python_version = <<3, 11, 4>>
    /\ venv_exists = TRUE
    /\ setup_pc = "idle"
    /\ setup_log = <<>>
    /\ setup_exit = <<>>

\* ------------------------------------------------------------------ main

\* The values of main's variables before main has assigned them.
MainIdle ==
    /\ documents = <<>>
    /\ cat_i = 1
    /\ doc_i = 1
    /\ results = <<>>
    /\ all_results = <<>>
    /\ convert_log = <<>>
    /\ cli_test_files = <<>>
    /\ cli_i = 1
    /\ cli_results = <<>>
    /\ cli_log = <<>>
    /\ summaries = <<>>
    /\ report = NoReport
    /\ raised_in = "none"
    /\ exit_code = <<>>

Init ==
    /\ import_ok \in BOOLEAN
    /\ dir_state \in {"missing", "unlistable", "ok"}
    /\ listing \in Listings(PoolDocs)
    /\ dir_state # "ok" => listing = <<>>
    /\ report_file = PreviousFile
    /\ SetupIdle
    /\ pc = "start"
    /\ clock = 0
    /\ MainIdle

\* main returns: the interpreter exits with code 0.
Return ==
    /\ pc' = "done"
    /\ exit_code' = <<0>>
    /\ UNCHANGED raised_in

\* An exception leaves main: the interpreter prints the traceback and exits
\* with code 1.
Uncaught(where) ==
    /\ pc' = "crashed"
    /\ exit_code' = <<1>>
    /\ raised_in' = where

\* The mutant of TestDoclingImport that goes on whatever the import check
\* returned.
TestDoclingImportIgnored ==
    /\ pc = "start"
    /\ pc' = "scan"
    /\ UNCHANGED <<raised_in, exit_code>>
    /\ UNCHANGED <<env, report_file, documents, cat_i, doc_i, results, all_results,
                   convert_log, cli_test_files, cli_i, cli_results, cli_log,
                   summaries, report, clock>>

\* main, lines 386-389.
TestDoclingImport ==
    /\ pc = "start"
    /\ IF import_ok
       THEN pc' = "scan" /\ UNCHANGED <<raised_in, exit_code>>
       ELSE Return
    /\ UNCHANGED <<env, report_file, documents, cat_i, doc_i, results, all_results,
                   convert_log, cli_test_files, cli_i, cli_results, cli_log,
                   summaries, report, clock>>

\* The mutant of AfterScan without the check of lines 394-396: the loop of
\* line 403 runs over whatever the dict holds.
AfterScanNoCheck(docs) ==
    /\ pc' = IF docs = <<>> THEN "cli" ELSE "convert"
    /\ UNCHANGED <<raised_in, exit_code>>

\* main, lines 394-396: an empty dict ends the run.
AfterScan(docs) ==
    IF docs = <<>>
    THEN Return
    ELSE pc' = "convert" /\ UNCHANGED <<raised_in, exit_code>>

\* main, lines 392-396, with get_test_documents: a missing directory gives
\* an empty dict, iterdir on a directory that cannot be listed raises.
GetTestDocuments ==
    /\ pc = "scan"
    /\ CASE dir_state = "missing" ->
                documents' = <<>> /\ AfterScan(<<>>)
         [] dir_state = "unlistable" ->
                UNCHANGED documents /\ Uncaught("get_test_documents")
         [] OTHER ->
                documents' = GetTestDocumentsOf(listing) /\ AfterScan(documents')
    /\ UNCHANGED <<env, report_file, cat_i, doc_i, results, all_results,
                   convert_log, cli_test_files, cli_i, cli_results, cli_log,
                   summaries, report, clock>>

\* The mutant of ConvertOne without the except clause: the exception of a
\* failed conversion leaves test_document_conversion.
ConvertOneUncaught(outcome) ==
    LET category == documents[cat_i].category
        doc_info == documents[cat_i].docs[doc_i]
    IN  /\ convert_log' = Append(convert_log,
                                 [file_name |-> doc_info.name, outcome |-> outcome.kind])
        /\ IF outcome.kind = "ok"
           THEN /\ results' = Append(results,
                                     ConversionRecord(doc_info, category, outcome, clock))
                /\ doc_i' = doc_i + 1
                /\ clock' = clock + 1
                /\ UNCHANGED <<pc, raised_in, exit_code>>
           ELSE /\ Uncaught("test_document_conversion")
                /\ UNCHANGED <<results, doc_i, clock>>

\* The mutant of ConvertOne that tries a failed file again.
ConvertOneRetry(outcome) ==
    LET category == documents[cat_i].category
        doc_info == documents[cat_i].docs[doc_i]
    IN  /\ convert_log' = Append(convert_log,
                                 [file_name |-> doc_info.name, outcome |-> outcome.kind])
        /\ results' = Append(results,
                             ConversionRecord(doc_info, category, outcome, clock))
        /\ doc_i' = IF outcome.kind = "ok" \/ Len(convert_log) >= MaxEntries
                    THEN doc_i + 1 ELSE doc_i
        /\ clock' = clock + 1
        /\ UNCHANGED <<pc, raised_in, exit_code>>

\* One pass of test_category's loop, lines 156-158: test_document_conversion
\* calls the converter once and returns a record, stamped with the time,
\* whatever the call did.
ConvertOne(outcome) ==
    LET category == documents[cat_i].category
        doc_info == documents[cat_i].docs[doc_i]
    IN  /\ convert_log' = Append(convert_log,
                                 [file_name |-> doc_info.name, outcome |-> outcome.kind])
        /\ results' = Append(results,
                             ConversionRecord(doc_info, category, outcome, clock))
        /\ doc_i' = doc_i + 1
        /\ clock' = clock + 1
        /\ UNCHANGED <<pc, raised_in, exit_code>>

TestDocumentConversion ==
    /\ pc = "convert"
    /\ cat_i <= Len(documents)
    /\ doc_i <= Len(documents[cat_i].docs)
    /\ \E outcome \in ConverterOutcomes(FileAt(listing,
                                                documents[cat_i].docs[doc_i].name)) :
          ConvertOne(outcome)
    /\ UNCHANGED <<env, report_file, documents, cat_i, all_results,
                   cli_test_files, cli_i, cli_results, cli_log, summaries, report>>

\* The mutant of TestCategorySummary that leaves main's loop after the first
\* category.
TestCategorySummaryFirstOnly ==
    /\ pc = "convert"
    /\ cat_i <= Len(documents)
    /\ doc_i > Len(documents[cat_i].docs)
    /\ summaries' = Append(summaries, CategorySummary(results))
    /\ all_results' = Append(all_results,
                             [category |-> documents[cat_i].category,
                              results |-> results])
    /\ cat_i' = cat_i + 1
    /\ doc_i' = 1
    /\ results' = <<>>
    /\ pc' = "cli"
    /\ UNCHANGED <<raised_in, exit_code>>
    /\ UNCHANGED <<env, report_file, documents, convert_log, cli_test_files,
                   cli_i, cli_results, cli_log, report, clock>>

\* The end of test_category, lines 160-169, and main's lines 403-405: the
\* summary is printed, the results are stored under the category, and the
\* loop goes to the next category or ends.
TestCategorySummary ==
    /\ pc = "convert"
    /\ cat_i <= Len(documents)
    /\ doc_i > Len(documents[cat_i].docs)
    /\ LET summary == CategorySummary(results)
       IN  IF summary.raised
           THEN /\ Uncaught("test_category")
                /\ UNCHANGED <<cat_i, doc_i, results, all_results, summaries>>
           ELSE /\ summaries' = Append(summaries, summary)
                /\ all_results' = Append(all_results,
                                         [category |-> documents[cat_i].category,
                                          results |-> results])
                /\ cat_i' = cat_i + 1
                /\ doc_i' = 1
                /\ results' = <<>>
                /\ pc' = IF cat_i < Len(documents) THEN "convert" ELSE "cli"
                /\ UNCHANGED <<raised_in, exit_code>>
    /\ UNCHANGED <<env, report_file, documents, convert_log, cli_test_files,
                   cli_i, cli_results, cli_log, report, clock>>

\* test_cli_interface up to its loop, lines 176-193.
TestCliInterface ==
    /\ pc = "cli"
    /\ CASE dir_state = "missing" ->
                /\ pc' = "report"
                /\ UNCHANGED <<cli_test_files, raised_in, exit_code>>
         [] dir_state = "unlistable" ->
                /\ Uncaught("test_cli_interface")
                /\ UNCHANGED cli_test_files
         [] OTHER ->
                /\ cli_test_files' = CliSelect(listing)
                /\ pc' = IF cli_test_files' = <<>> THEN "report" ELSE "cli_run"
                /\ UNCHANGED <<raised_in, exit_code>>
    /\ UNCHANGED <<env, report_file, documents, cat_i, doc_i, results, all_results,
                   convert_log, cli_i, cli_results, cli_log, summaries, report,
                   clock>>

\* The mutant of CliOne without the except clauses: a timeout leaves
\* test_cli_interface.
CliOneUncaught(outcome) ==
    IF outcome.kind \in {"timeout", "exception"}
    THEN /\ Uncaught("test_cli_interface")
         /\ UNCHANGED <<cli_results, cli_log, cli_i>>
    ELSE /\ cli_results' = Append(cli_results, CliRecord(cli_test_files[cli_i], outcome))
         /\ cli_log' = Append(cli_log, [file_name |-> cli_test_files[cli_i].name,
                                        timeout |-> CliTimeout, outcome |-> outcome])
         /\ cli_i' = cli_i + 1
         /\ pc' = IF cli_i < Len(cli_test_files) THEN "cli_run" ELSE "report"
         /\ UNCHANGED <<raised_in, exit_code>>

\* One pass of test_cli_interface's loop, lines 195-242: every outcome of
\* subprocess.run appends one record.
CliOne(outcome) ==
    /\ cli_results' = Append(cli_results, CliRecord(cli_test_files[cli_i], outcome))
    /\ cli_log' = Append(cli_log, [file_name |-> cli_test_files[cli_i].name,
                                   timeout |-> CliTimeout, outcome |-> outcome])
    /\ cli_i' = cli_i + 1
    /\ pc' = IF cli_i < Len(cli_test_files) THEN "cli_run" ELSE "report"
    /\ UNCHANGED <<raised_in, exit_code>>

CliInvoke ==
    /\ pc = "cli_run"
    /\ cli_i <= Len(cli_test_files)
    /\ \E outcome \in CliOutcomes : CliOne(outcome)
    /\ UNCHANGED <<env, report_file, documents, cat_i, doc_i, results, all_results,
                   convert_log, cli_test_files, summaries, report, clock>>

\* main, line 411.
GenerateReport ==
    /\ pc = "report"
    /\ report' = GenerateKmrlReport(all_results, cli_results)
    /\ IF report'.raised
       THEN Uncaught("generate_kmrl_report")
       ELSE pc' = "save" /\ UNCHANGED <<raised_in, exit_code>>
    /\ UNCHANGED <<env, report_file, documents, cat_i, doc_i, results, all_results,
                   convert_log, cli_test_files, cli_i, cli_results, cli_log,
                   summaries, clock>>

\* The mutant of SaveOne that swallows a failed write.
SaveOneSwallow(outcome) ==
    /\ report_file' = FileAfterWrite(report_file,
                                     ReportData(all_results, cli_results, clock),
                                     outcome)
    /\ clock' = clock + 1
    /\ Return

\* save_results, lines 349-378, and main's return: an exception of open or
\* of json.dump is not caught.
SaveOne(outcome) ==
    /\ report_file' = FileAfterWrite(report_file,
                                     ReportData(all_results, cli_results, clock),
                                     outcome)
    /\ clock' = clock + 1
    /\ IF outcome = "ok" THEN Return
       ELSE Uncaught(IF outcome = "open_raises" THEN "open" ELSE "json.dump")

SaveResults ==
    /\ pc = "save"
    /\ \E outcome \in WriteOutcomes : SaveOne(outcome)
    /\ UNCHANGED <<env, documents, cat_i, doc_i, results, all_results, convert_log,
                   cli_test_files, cli_i, cli_results, cli_log, summaries, report>>

Next ==
    \/ TestDoclingImport
    \/ GetTestDocuments
    \/ TestDocumentConversion
    \/ TestCategorySummary
    \/ TestCliInterface
    \/ CliInvoke
    \/ GenerateReport
    \/ SaveResults

Spec == Init /\ [][Next]_vars

\* ------------------------------------- classification on its own

\* File names for the classification: each stem with each extension.
ClassifyStems ==
    {<<"x">>,
     <<"m", "a", "l">>,
     <<"M", "A", "L">>,
     <<"n", "o", "r", "m", "a", "l">>,
     <<"h", "a", "n", "d", "w", "r", "i", "t", "e">>,
     <<"h", "a", "n", "d", "w", "r", "i", "t", "t", "e", "n">>,
     <<"H", "a", "n", "d", "w", "r", "i", "t", "t", "e", "n", "_", "s", "c", "a", "n">>,
     <<"s", "c", "a", "n">>,
     <<"m", "a", "l", "_", "s", "c", "a", "n">>,
     <<"s", "c", "a", "n", "_", "h", "a", "n", "d", "w", "r", "i", "t", "e">>,
     <<"x", ".", "p", "n", "g">>,
     <<>>}

ClassifyExts ==
    {ExtJpg, ExtJpeg, ExtPng, ExtDwg, ExtDocx, ExtPptx, ExtCsv, ExtTxt,
     <<".", "P", "N", "G">>,
     <<".", "J", "P", "G">>,
     <<".", "D", "o", "c", "x">>,
     <<".", "j", "p", "e">>,
     <<".">>,
     <<>>}

ClassifyNames ==
    {stem \o ext : stem \in ClassifyStems, ext \in ClassifyExts} \ {<<>>, <<".">>}

\* main at its scan of a directory that holds one regular file.
InitClassify ==
    /\ import_ok = TRUE
    /\ dir_state = "ok"
    /\ listing \in {<<File(n, "file", 1, <<"x">>, <<"x">>)>> : n \in ClassifyNames}
    /\ report_file = PreviousFile
    /\ SetupIdle
    /\ pc = "scan"
    /\ clock = 0
    /\ MainIdle

NextClassify == GetTestDocuments

SpecClassify == InitClassify /\ [][NextClassify]_vars

\* The rule of the classification as the specification words it, on the
\* lower-cased name and the lower-cased extension.
ClaimedCategory(lname, ext) ==
    LET image == ext \in {ExtJpg, ExtJpeg, ExtPng}
        mal   == Contains(lname, StrMal)
        hand  == Contains(lname, StrHandwrite) \/ Contains(lname, StrHandwritten)
        scan  == Contains(lname, StrScan)
    IN  CASE image /\ mal -> "malayalam_ocr"
          [] image /\ ~mal /\ hand -> "handwritten_ocr"
          [] image /\ ~mal /\ ~hand /\ scan -> "scanned_document"
          [] image /\ ~mal /\ ~hand /\ ~scan -> "image_ocr"
          [] ~image /\ ext = ExtDwg -> "engineering_drawing"
          [] ~image /\ ext = ExtDocx -> "word_document"
          [] ~image /\ ext = ExtPptx -> "powerpoint_presentation"
          [] ~image /\ ext = ExtCsv -> "data_file"
          [] OTHER -> "other"

\* C1: every file record of get_test_documents carries the category the
\* ordered first-match rule gives for its lower-cased name and its
\* extension: the name heuristics only under an image extension, "mal"
\* before "handwrite"/"handwritten" before "scan".
C1_ClassificationRule ==
    \A i \in DOMAIN documents :
        \A j \in DOMAIN documents[i].docs :
            documents[i].category =
                ClaimedCategory(Lower(documents[i].docs[j].name),
                                documents[i].docs[j].extension)

\* C1's case: an image whose name holds both "mal" and "scan" has been
\* classified, and as malayalam_ocr.
C1_Witness ==
    \E i \in DOMAIN documents :
        \E j \in DOMAIN documents[i].docs :
            /\ Contains(Lower(documents[i].docs[j].name), StrMal)
            /\ Contains(Lower(documents[i].docs[j].name), StrScan)
            /\ documents[i].docs[j].extension = ExtPng
            /\ documents[i].category = "malayalam_ocr"

\* ------------------------------------------------- the run as a whole

RECURSIVE RecordsFrom(_, _)
RecordsFrom(ar, i) ==
    IF i > Len(ar) THEN <<>> ELSE ar[i].results \o RecordsFrom(ar, i + 1)

\* The outcome records so far, in the order they were returned: those of
\* the finished categories, then those of the category in progress.
AllRecords == RecordsFrom(all_results, 1) \o results

RECURSIVE DocsFrom(_, _)
DocsFrom(d, i) ==
    IF i > Len(d) THEN <<>> ELSE d[i].docs \o DocsFrom(d, i + 1)

\* The file records of the scan, category by category.
AllDocs == DocsFrom(documents, 1)

\* The conversion loop of main has ended.
ConversionsOver ==
    \/ pc \in {"cli", "cli_run", "report", "save"}
    \/ pc \in {"done", "crashed"} /\ documents # <<>>

\* The directory entries that are regular files, and those that are regular
\* files or symbolic links resolving to one.
RegularFiles == {i \in DOMAIN listing : listing[i].kind = "file"}
FilesAndLinks == {i \in DOMAIN listing : listing[i].kind \in {"file", "link_file"}}

\* C2: every call of the converter so far, failed or not, has its outcome
\* record (a failed call a failed record), no exception has left the
\* conversion loop, and once the loop is over every scanned file, in every
\* category, has been attempted.
C2_FailuresNeverStopTheBatch ==
    LET recs == AllRecords
        docs == AllDocs
    IN  /\ Len(recs) = Len(convert_log)
        /\ \A k \in DOMAIN convert_log :
              /\ recs[k].file_name = convert_log[k].file_name
              /\ recs[k].conversion_successful = (convert_log[k].outcome = "ok")
        /\ raised_in \notin {"test_document_conversion", "test_category"}
        /\ pc = "convert" =>
              /\ cat_i <= Len(documents)
              /\ Len(convert_log) < Len(docs)
                 => doc_i <= Len(documents[cat_i].docs) \/ cat_i < Len(documents)
        /\ ConversionsOver =>
              /\ Len(convert_log) = Len(docs)
              /\ \A k \in DOMAIN docs : convert_log[k].file_name = docs[k].name

\* C2's case: a conversion failed, a later file of the same category was
\* attempted, and so was a file of a later category.
C2_Witness ==
    \E k, m, n \in DOMAIN convert_log :
        /\ k < m /\ m < n
        /\ convert_log[k].outcome = "convert_raises"
        /\ AllRecords[m].category = AllRecords[k].category
        /\ AllRecords[n].category # AllRecords[k].category

ScannedNames == {listing[i].name : i \in FilesAndLinks}

\* How often converter.convert was called on a file.
Calls(name) ==
    Cardinality({k \in DOMAIN convert_log : convert_log[k].file_name = name})

\* A file's conversion state by the records recs: Pending until a record of
\* it is returned, then what its latest record says.
OutcomeIn(recs, name) ==
    LET ks == {k \in DOMAIN recs : recs[k].file_name = name}
    IN  IF ks = {} THEN "Pending"
        ELSE LET last == CHOOSE k \in ks : \A m \in ks : m <= k
             IN  IF recs[last].conversion_successful THEN "Success" ELSE "Failed"

Outcome(name) == OutcomeIn(AllRecords, name)

C4_Once ==
    LET recs == AllRecords
    IN  \A name \in ScannedNames :
            /\ Calls(name) <= 1
            /\ OutcomeIn(recs, name) = "Pending" <=> Calls(name) = 0
            /\ ConversionsOver => Calls(name) = 1

C4_Terminal ==
    LET before == AllRecords
        after  == AllRecords'
    IN  \A name \in ScannedNames :
            OutcomeIn(before, name) # "Pending"
                => OutcomeIn(after, name) = OutcomeIn(before, name)

\* C4: the converter is called at most once per file and exactly once by the
\* end of the conversions, a file is Pending exactly until that call, and a
\* file that is Success or Failed stays so in every later step.
C4_OneStepStateMachine == [](C4_Once) /\ [][C4_Terminal]_vars

\* C4's case: the run has ended with one file Failed and another Success.
C4_Witness ==
    /\ pc = "done"
    /\ \E a, b \in ScannedNames : Outcome(a) = "Failed" /\ Outcome(b) = "Success"

\* ------------------------------------------------ the CLI exercise

\* all_results when every conversion of the documents d, scanned from the
\* listing l, succeeded: the k-th conversion read the time k - 1.
AllSucceeded(l, d) ==
    [i \in DOMAIN d |->
        [category |-> d[i].category,
         results |-> [j \in DOMAIN d[i].docs |->
                         LET file == FileAt(l, d[i].docs[j].name)
                         IN  ConversionRecord(
                                 d[i].docs[j], d[i].category,
                                 [kind |-> "ok", text |-> file.text,
                                  markdown |-> file.markdown],
                                 Len(DocsFrom(SubSeq(d, 1, i - 1), 1)) + j - 1)]]]

\* main at line 408, after a conversion loop in which every conversion
\* succeeded, over a directory of text-like entries.
InitCli ==
    /\ import_ok = TRUE
    /\ dir_state = "ok"
    /\ listing \in Listings(PoolCli)
    /\ report_file = PreviousFile
    /\ SetupIdle
    /\ pc = "cli"
    /\ documents = GetTestDocumentsOf(listing)
    /\ documents # <<>>
    /\ cat_i = Len(documents) + 1
    /\ doc_i = 1
    /\ results = <<>>
    /\ all_results = AllSucceeded(listing, documents)
    /\ convert_log = [k \in DOMAIN AllDocs |->
                         [file_name |-> AllDocs[k].name, outcome |-> "ok"]]
    /\ cli_test_files = <<>>
    /\ cli_i = 1
    /\ cli_results = <<>>
    /\ cli_log = <<>>
    /\ summaries = [i \in DOMAIN all_results |-> CategorySummary(all_results[i].results)]
    /\ report = NoReport
    /\ raised_in = "none"
    /\ exit_code = <<>>
    /\ clock = Len(AllDocs)

NextCli ==
    \/ TestCliInterface
    \/ CliInvoke
    \/ GenerateReport
    \/ SaveResults

SpecCli == InitCli /\ [][NextCli]_vars

\* C7: no exception leaves the CLI exercise; while it runs the next selected
\* file can be invoked; after it every selected file has its record, in
\* selection order, whatever the invocations did; and the run goes on to
\* the report and to the saving, the only step after which it may end.
C7_CliFailureNeverAborts ==
    /\ raised_in # "test_cli_interface"
    /\ pc = "cli_run" =>
          /\ cli_i <= Len(cli_test_files)
          /\ Len(cli_results) = cli_i - 1
    /\ pc \in {"report", "save", "done", "crashed"} =>
          /\ Len(cli_results) = Len(cli_test_files)
          /\ \A k \in DOMAIN cli_results :
                cli_results[k].file_name = cli_test_files[k].name
    /\ pc \in {"save", "done", "crashed"} => report.printed /\ ~report.raised
    /\ pc = "crashed" => raised_in \in {"open", "json.dump"}
    /\ pc = "done" => report_file.status = "new"

\* C7's case: an invocation timed out, a later selected file was invoked all
\* the same, and the run ended with the report saved.
C7_Witness ==
    /\ pc = "done"
    /\ report_file.status = "new"
    /\ \E k, m \in DOMAIN cli_results :
          /\ k < m
          /\ ~cli_results[k].cli_successful
          /\ cli_results[k].error = "Timeout"
          /\ cli_results[m].cli_successful

\* ------------------------------- the report functions on their own

\* The file the functions are handed, and its file record.
EntryDoc == File(<<"d", "o", "c">>, "file", 1, <<"d">>, <<"d">>)

FunctionDoc == [name |-> EntryDoc.name, size |-> EntryDoc.size, extension |-> <<>>]

\* A results list of s successful and f failed records.
ResultsOf(category, s, f) ==
    [k \in 1..(s + f) |->
        ConversionRecord(FunctionDoc, category,
                         IF k <= s
                         THEN [kind |-> "ok", text |-> EntryDoc.text,
                               markdown |-> EntryDoc.markdown]
                         ELSE [kind |-> "convert_raises", text |-> <<>>,
                               markdown |-> <<>>],
                         k - 1)]

FunctionCategories ==
    <<"word_document", "powerpoint_presentation", "data_file", "other">>

\* One category of an all_results argument: absent, or present with s
\* successful and f failed records, at most MaxUnitLen records in all.
CategoryChoices ==
    {c \in [present : BOOLEAN, s : 0..MaxUnitLen, f : 0..MaxUnitLen] :
        /\ c.s + c.f <= MaxUnitLen
        /\ ~c.present => c.s = 0 /\ c.f = 0}

\* The all_results dict of a choice per category: the present ones, in order.
AllResultsOf(ch) ==
    LET full == [k \in DOMAIN FunctionCategories |->
                    [category |-> FunctionCategories[k],
                     present |-> ch[k].present,
                     results |-> ResultsOf(FunctionCategories[k], ch[k].s, ch[k].f)]]
        kept == SelectSeq(full, LAMBDA e : e.present)
    IN  [i \in DOMAIN kept |->
            [category |-> kept[i].category, results |-> kept[i].results]]

\* test_category called with a category and a list of up to MaxUnitLen
\* documents, the empty list included.
InitTestCategory ==
    /\ pc = "convert"
    /\ \E category \in {FunctionCategories[k] : k \in DOMAIN FunctionCategories} :
       \E n \in 0..MaxUnitLen :
          documents = <<[category |-> category, docs |-> [k \in 1..n |-> FunctionDoc]]>>
    /\ all_results = <<>>

\* generate_kmrl_report called with an all_results dict whose categories
\* hold up to MaxUnitLen records each, none included.
InitGenerateReport ==
    /\ pc = "report"
    /\ documents = <<>>
    /\ all_results \in {AllResultsOf(ch) :
                          ch \in [DOMAIN FunctionCategories -> CategoryChoices]}

InitFunctions ==
    /\ import_ok = TRUE
    /\ dir_state = "ok"
    /\ listing = <<EntryDoc>>
    /\ report_file = PreviousFile
    /\ SetupIdle
    /\ InitTestCategory \/ InitGenerateReport
    /\ cat_i = 1
    /\ doc_i = 1
    /\ results = <<>>
    /\ convert_log = <<>>
    /\ cli_test_files = <<>>
    /\ cli_i = 1
    /\ cli_results = <<>>
    /\ cli_log = <<>>
    /\ summaries = <<>>
    /\ report = NoReport
    /\ raised_in = "none"
    /\ exit_code = <<>>
    /\ clock = 0

NextFunctions ==
    \/ TestDocumentConversion
    \/ TestCategorySummary
    \/ GenerateReport

SpecFunctions == InitFunctions /\ [][NextFunctions]_vars

C6_ReadinessRule ==
    (report.printed /\ ~report.raised) =>
        LET recs == AllRecords
            present(c) == \E i \in DOMAIN all_results : all_results[i].category = c
            succeeded(c) == \E k \in DOMAIN recs :
                                recs[k].category = c /\ recs[k].conversion_successful
            nsucc == Cardinality({k \in DOMAIN recs : recs[k].conversion_successful})
        IN  (report.recommendation = "READY")
                <=> /\ \A c \in {"word_document", "powerpoint_presentation", "data_file"} :
                          present(c) => succeeded(c)
                    /\ 10 * nsucc >= 7 * Len(recs)

\* C6's case: all three critical categories are present with a success each,
\* three of four documents succeeded, and the recommendation is READY.
C6_Witness ==
    /\ report.printed /\ ~report.raised
    /\ report.recommendation = "READY"
    /\ report.total_documents = 4
    /\ report.total_successful = 3
    /\ \A c \in {"word_document", "powerpoint_presentation", "data_file"} :
          \E i \in DOMAIN all_results :
              all_results[i].category = c /\ Successful(all_results[i].results) >= 1

C9_ScanErrorAborts ==
    dir_state # "ok" =>
        /\ pc \in {"start", "scan", "done", "crashed"}
        /\ convert_log = <<>>
        /\ all_results = <<>>
        /\ cli_results = <<>>
        /\ ~report.printed
        /\ report_file = PreviousFile
    /\ SetupIdle

\* C9's case: the run over a directory that cannot be listed has ended.
C9_Witness ==
    /\ dir_state = "unlistable"
    /\ import_ok
    /\ pc = "crashed"
    /\ raised_in = "get_test_documents"

\* C10: a run that ends by main returning exits with 0, whatever the file
\* outcomes; the exit code is 1 only when the scan raised on a directory
\* that cannot be listed or the saving raised; a failed saving comes after
\* every conversion was recorded and always gives exit code 1.
C10_ExitCode ==
    /\ exit_code # <<>> <=> pc \in {"done", "crashed"}
    /\ pc = "done" => exit_code = <<0>>
    /\ exit_code = <<1>> =>
          \/ raised_in = "get_test_documents" /\ dir_state = "unlistable"
          \/ raised_in \in {"open", "json.dump"}
    /\ raised_in \in {"open", "json.dump"} =>
          /\ exit_code = <<1>>
          /\ Len(AllRecords) = Cardinality(FilesAndLinks)
          /\ results = <<>>
    /\ (pc \in {"done", "crashed"} /\ report.printed /\ report_file.status # "new")
          => exit_code = <<1>>

\* C10's case: the saving failed after a run in which a conversion failed,
\* and the exit code is 1.
C10_Witness ==
    /\ raised_in = "open"
    /\ exit_code = <<1>>
    /\ \E k \in DOMAIN AllRecords : ~AllRecords[k].conversion_successful

\* ------------------------------------------ what the scan leaves out

\* A name is touched when the scan has it in a category list, the converter
\* was called on it, or an outcome record carries it.
Touched(name) ==
    \/ \E k \in DOMAIN convert_log : convert_log[k].file_name = name
    \/ \E i \in DOMAIN documents :
          \E j \in DOMAIN documents[i].docs : documents[i].docs[j].name = name
    \/ \E k \in DOMAIN results : results[k].file_name = name
    \/ \E i \in DOMAIN all_results :
          \E j \in DOMAIN all_results[i].results :
              all_results[i].results[j].file_name = name

\* Nothing is touched but the entries of the listing that satisfy keep.
OnlyTouched(keep(_)) ==
    /\ \A k \in DOMAIN convert_log :
          \E i \in DOMAIN listing :
              keep(listing[i]) /\ listing[i].name = convert_log[k].file_name
    /\ \A c \in DOMAIN documents :
          \A j \in DOMAIN documents[c].docs :
              \E i \in DOMAIN listing :
                  keep(listing[i]) /\ listing[i].name = documents[c].docs[j].name
    /\ \A k \in DOMAIN results :
          \E i \in DOMAIN listing :
              keep(listing[i]) /\ listing[i].name = results[k].file_name
    /\ \A c \in DOMAIN all_results :
          \A j \in DOMAIN all_results[c].results :
              \E i \in DOMAIN listing :
                  /\ keep(listing[i])
                  /\ listing[i].name = all_results[c].results[j].file_name

TextLike ==
    SelectSeq(listing, LAMBDA e : Lower(Suffix(e.name)) \in {ExtTxt, ExtCsv, ExtMd})

\* C12: subprocess.run is called at most three times, each time with a
\* timeout of 30 seconds, on the first (at most three) entries in listing
\* order whose extension is .txt, .csv or .md whatever its case; when there
\* is no such entry it is never called and the saved cli_results is empty.
C12_CliSelection ==
    LET want == SubSeq(TextLike, 1, IF Len(TextLike) < 3 THEN Len(TextLike) ELSE 3)
    IN  /\ Len(cli_log) <= 3
        /\ Len(cli_results) = Len(cli_log)
        /\ \A k \in DOMAIN cli_log :
              /\ cli_log[k].timeout = 30
              /\ cli_log[k].file_name = want[k].name
        /\ pc \in {"cli_run", "report", "save", "done", "crashed"} =>
              cli_test_files = want
        /\ pc \in {"report", "save", "done", "crashed"} => Len(cli_log) = Len(want)
        /\ TextLike = <<>> =>
              /\ cli_log = <<>>
              /\ cli_results = <<>>
              /\ report_file.status = "new" => report_file.data[1].cli_results = <<>>

\* C12's case: the directory holds four text-like entries, one of them
\* named in capitals; the first three, the one in capitals among them, were
\* run and the fourth was not.
C12_Witness ==
    /\ pc = "done"
    /\ Len(TextLike) = 4
    /\ Len(cli_log) = 3
    /\ \E k \in 1..3 : cli_log[k].file_name = EntryReadmeMD.name
    /\ \A k \in 1..3 : cli_log[k].file_name # TextLike[4].name

\* A CLI record without the name of its file: what tells its kind.
WithoutFileName(r) == [f \in (DOMAIN r) \ {"file_name"} |-> r[f]]

EntryScanInvoicePng ==
    File(<<"s", "c", "a", "n", "_", "i", "n", "v", "o", "i", "c", "e", ".", "p", "n", "g">>,
         "file", 900, <<"I", "n", "v">>, <<"I", "n", "v">>)
EntryDrawingDwg ==
    File(<<"d", "r", "a", "w", "i", "n", "g", ".", "d", "w", "g">>,
         "file", 2500, <<>>, <<>>)

\* A directory of four documents of four categories.
PoolExample == {EntryReportDocx, EntryDataCsv, EntryScanInvoicePng, EntryDrawingDwg}

\* Texts docling may extract, around the length a preview keeps: empty,
\* whitespace only, short, and of 199 to 250 characters.
PreviewTexts ==
    {<<>>,
     <<" ">>,
     <<"\n", "\t", " ">>,
     <<"a">>,
     <<" ", "a", "\n">>,
     Chars(PreviewLimit - 1, "a"),
     Chars(PreviewLimit, "a"),
     Chars(PreviewLimit + 1, "a"),
     Chars(PreviewLimit, "a") \o <<"b", "c", "d", "e">>,
     Chars(PreviewLimit + 1, " "),
     Chars(PreviewLimit, " ") \o <<"z">>,
     Chars(PreviewLimit + 50, "a")}

\* A document with one of these texts.
EntryPage(text) ==
    File(<<"p", "a", "g", "e", ".", "d", "o", "c", "x">>, "file", Len(text) + 10,
         text, <<"#">> \o text)

\* The same output for the same file: a converter, and a CLI, that return
\* fixed outputs per file.
FixedOutputs ==
    /\ \A k, m \in DOMAIN convert_log :
          convert_log[k].file_name = convert_log[m].file_name
              => convert_log[k].outcome = convert_log[m].outcome
    /\ \A k, m \in DOMAIN cli_log :
          cli_log[k].file_name = cli_log[m].file_name
              => cli_log[k].outcome = cli_log[m].outcome

\* A directory in which a category is met twice, another one in between.
ListingTwoOfACategory == <<EntryReportDocx, EntryDataCsv, EntryMemoDocx>>

\* The first run starts: over the four documents, over one file of any
\* name, over one document of any text, or over two documents of a category.
InitTwice ==
    /\ import_ok = TRUE
    /\ dir_state = "ok"
    /\ listing \in Listings(PoolExample)
                   \cup {<<File(n, "file", 1, <<"x">>, <<"x">>)>> : n \in ClassifyNames}
                   \cup {<<EntryPage(t)>> : t \in PreviewTexts}
                   \cup {ListingTwoOfACategory}
    /\ report_file = PreviousFile
    /\ SetupIdle
    /\ pc = "start"
    /\ clock = 0
    /\ MainIdle

\* Lines 419-420 a second time, on the unchanged directory: the script is
\* run again after a run that saved its report, which is now the file of
\* an earlier run; the clock and what the converter was asked go on.
RunAgain ==
    /\ pc = "done"
    /\ report_file.status = "new"
    /\ Len(convert_log) <= Len(listing)
    /\ report_file' = [status |-> "previous", data |-> report_file.data]
    /\ pc' = "start"
    /\ documents' = <<>>
    /\ cat_i' = 1
    /\ doc_i' = 1
    /\ results' = <<>>
    /\ all_results' = <<>>
    /\ cli_test_files' = <<>>
    /\ cli_i' = 1
    /\ cli_results' = <<>>
    /\ summaries' = <<>>
    /\ report' = NoReport
    /\ raised_in' = "none"
    /\ exit_code' = <<>>
    /\ UNCHANGED <<env, convert_log, cli_log, clock>>

NextTwice ==
    \/ TestDoclingImport
    \/ GetTestDocuments
    \/ TestDocumentConversion /\ FixedOutputs'
    \/ TestCategorySummary
    \/ TestCliInterface
    \/ CliInvoke /\ FixedOutputs'
    \/ GenerateReport
    \/ SaveResults
    \/ RunAgain

SpecTwice == InitTwice /\ [][NextTwice]_vars

\* A record without its timestamp.
WithoutTimestamp(r) == [f \in (DOMAIN r) \ {"timestamp"} |-> r[f]]

\* A saved report without its timestamp fields.
WithoutTimestamps(d) ==
    [total_documents |-> d.total_documents,
     categories |-> [i \in DOMAIN d.categories |->
                        [category |-> d.categories[i].category,
                         results |-> [j \in DOMAIN d.categories[i].results |->
                                         WithoutTimestamp(d.categories[i].results[j])]]],
     cli_results |-> d.cli_results,
     summary |-> d.summary]

\* C14: when a second run on the unchanged directory, with fixed outputs per
\* file, saves its report, the file holds one report, and but for the
\* timestamp fields it is the report the first run saved: the same
\* categories, the same records in the same order, the same totals and
\* the same summary.
C14_SameReportTwice ==
    [][(pc = "save" /\ report_file.data # <<>> /\ report_file'.status = "new")
          => /\ Len(report_file'.data) = 1
             /\ WithoutTimestamps(report_file'.data[1])
                    = WithoutTimestamps(report_file.data[1])]_vars

\* C14's case: the second run over the four documents, one of which fails,
\* has saved its report, at a later time than any first run could.
C14_Witness ==
    /\ pc = "done"
    /\ report_file.status = "new"
    /\ Len(listing) = 4
    /\ Len(convert_log) = 2 * Len(listing)
    /\ report_file.data[1].test_timestamp > Len(listing)
    /\ report_file.data[1].summary.total_failed = 1
    /\ report_file.data[1].cli_results # <<>>

KnownCategories ==
    {"malayalam_ocr", "handwritten_ocr", "scanned_document", "image_ocr",
     "engineering_drawing", "word_document", "powerpoint_presentation",
     "data_file", "other"}

\* The categories whose list holds a file of this name.
CategoriesOf(name) ==
    {i \in DOMAIN documents :
        \E j \in DOMAIN documents[i].docs : documents[i].docs[j].name = name}

\* C15: the scan raises nothing; after it every file of the directory is in
\* the list of exactly one category, once, and the category is one of the
\* nine, "other" when the extension is none of the eight known ones; and in
\* a second run over the unchanged directory every file is under the
\* category the report of the first run has it under.
C15_TotalAndDeterministic ==
    /\ raised_in # "get_test_documents"
    /\ \A i \in DOMAIN documents : documents[i].category \in KnownCategories
    /\ pc \notin {"start", "scan"} =>
          \A i \in DOMAIN listing :
              /\ Cardinality(CategoriesOf(listing[i].name)) = 1
              /\ Cardinality({k \in DOMAIN AllDocs : AllDocs[k].name = listing[i].name}) = 1
              /\ Lower(Suffix(listing[i].name))
                    \notin {ExtJpg, ExtJpeg, ExtPng, ExtDwg, ExtDocx, ExtPptx, ExtCsv}
                 => \A c \in CategoriesOf(listing[i].name) :
                        documents[c].category = "other"
    /\ (pc \notin {"start", "scan"} /\ report_file.data # <<>>) =>
          LET before == report_file.data[1].categories
          IN  \A i \in DOMAIN before :
                  \A j \in DOMAIN before[i].results :
                      \A c \in CategoriesOf(before[i].results[j].file_name) :
                          documents[c].category = before[i].category

\* C15's case: the second run has scanned a directory whose file matches
\* no rule, and has it under "other" as the first run had.
C15_Witness ==
    /\ pc = "convert"
    /\ report_file.status = "previous"
    /\ report_file.data # <<>>
    /\ report_file.data[1].categories[1].category = "other"
    /\ documents[1].category = "other"
    /\ Suffix(documents[1].docs[1].name) = <<>>

\* The files of the directory whose conversion succeeded, by what the
\* converter was asked and gave.
Succeeded ==
    {i \in FilesAndLinks :
        \E k \in DOMAIN convert_log :
            convert_log[k].file_name = listing[i].name /\ convert_log[k].outcome = "ok"}

\* C16: whatever succeeded and failed, the printed report has the number of
\* files as its total, the number of files converted with success as its
\* successful count and the number of the others as its failed count; it
\* has one line per category of the scan, with the category's own successes
\* over its own files; the saved report has the same counts. Of
\* report.docx, data.csv, scan_invoice.png succeeding and drawing.dwg
\* failing: the four categories, total 4, successful 3, failed 1, and
\* engineering_drawing at 0 of 1.
C16_ReportCounts ==
    (report.printed \/ report_file.status = "new") =>
        LET files == FilesAndLinks
            good  == Succeeded
            of(c) == {i \in files :
                         \E d \in DOMAIN documents :
                             /\ documents[d].category = c
                             /\ \E j \in DOMAIN documents[d].docs :
                                   documents[d].docs[j].name = listing[i].name}
        IN  /\ report.printed =>
                  /\ ~report.raised
                  /\ report.total_documents = Cardinality(files)
                  /\ report.total_successful = Cardinality(good)
                  /\ report.total_failed = Cardinality(files \ good)
                  /\ {report.breakdown[k].category : k \in DOMAIN report.breakdown}
                        = {documents[d].category : d \in DOMAIN documents}
                  /\ \A k, m \in DOMAIN report.breakdown :
                        report.breakdown[k].category = report.breakdown[m].category
                            => k = m
                  /\ \A k \in DOMAIN report.breakdown :
                        /\ report.breakdown[k].total
                              = Cardinality(of(report.breakdown[k].category))
                        /\ report.breakdown[k].successful
                              = Cardinality(of(report.breakdown[k].category) \cap good)
            /\ report_file.status = "new" =>
                  /\ report_file.data[1].total_documents = Cardinality(files)
                  /\ report_file.data[1].summary.total_successful = Cardinality(good)
                  /\ report_file.data[1].summary.total_failed = Cardinality(files \ good)
            /\ (/\ report.printed
                /\ {listing[i] : i \in DOMAIN listing} = PoolExample
                /\ {listing[i] : i \in good}
                      = {EntryReportDocx, EntryDataCsv, EntryScanInvoicePng}) =>
                  /\ {report.breakdown[k].category : k \in DOMAIN report.breakdown}
                        = {"word_document", "data_file", "scanned_document",
                           "engineering_drawing"}
                  /\ report.total_documents = 4
                  /\ report.total_successful = 3
                  /\ report.total_failed = 1
                  /\ \E k \in DOMAIN report.breakdown :
                        /\ report.breakdown[k].category = "engineering_drawing"
                        /\ report.breakdown[k].successful = 0
                        /\ report.breakdown[k].total = 1

\* C16's case: report.docx, data.csv and scan_invoice.png succeeded,
\* drawing.dwg failed, and the report is saved.
C16_Witness ==
    /\ pc = "done"
    /\ report_file.status = "new"
    /\ {listing[i] : i \in DOMAIN listing} = PoolExample
    /\ {listing[i] : i \in Succeeded} = {EntryReportDocx, EntryDataCsv, EntryScanInvoicePng}
    /\ report.total_documents = 4 /\ report.total_failed = 1

\* The records the run has made and the records the report file holds.
RecordsInSight ==
    {AllRecords[k] : k \in DOMAIN AllRecords}
        \cup (IF report_file.data = <<>> THEN {}
              ELSE LET saved == RecordsFrom(report_file.data[1].categories, 1)
                   IN  {saved[k] : k \in DOMAIN saved})

\* C18: every outcome record has file_name, category, file_size,
\* conversion_successful and timestamp; besides these a successful one has
\* markdown_length, text_length, has_content and preview and nothing else,
\* a failed one error and error_type and nothing else.
C18_RecordFields ==
    LET common == {"file_name", "category", "file_size", "conversion_successful",
                   "timestamp"}
    IN  \A r \in RecordsInSight :
            /\ common \subseteq DOMAIN r
            /\ r.conversion_successful =>
                  (DOMAIN r) \ common
                      = {"markdown_length", "text_length", "has_content", "preview"}
            /\ ~r.conversion_successful =>
                  (DOMAIN r) \ common = {"error", "error_type"}

\* C18's case: a run has ended with a successful and a failed record.
C18_Witness ==
    /\ pc = "done"
    /\ \E a, b \in RecordsInSight : a.conversion_successful /\ ~b.conversion_successful

\* C19: of a successful conversion, has_content tells whether the text has
\* a character that is not whitespace, and preview is the text when it has
\* at most 200 characters, its first 200 characters and then "..."
\* otherwise: never more than 203 characters.
C19_ContentAndPreview ==
    \A k \in DOMAIN AllRecords :
        LET r == AllRecords[k]
            text == FileAt(listing, r.file_name).text
        IN  r.conversion_successful =>
                /\ r.text_length = Len(text)
                /\ r.has_content
                      <=> \E i \in DOMAIN text : text[i] \notin {" ", "\t", "\n", "\r", "\f"}
                /\ Len(r.preview) <= 203
                /\ Len(text) <= 200 => r.preview = text
                /\ Len(text) > 200 =>
                      /\ Len(r.preview) = 203
                      /\ \A i \in 1..200 : r.preview[i] = text[i]
                      /\ \A i \in 201..203 : r.preview[i] = "."

\* C19's case: a text of 201 characters, every one whitespace, was
\* extracted: the record has no content and a preview of 203 characters.
C19_Witness ==
    \E k \in DOMAIN AllRecords :
        /\ AllRecords[k].conversion_successful
        /\ AllRecords[k].text_length = 201
        /\ ~AllRecords[k].has_content
        /\ Len(AllRecords[k].preview) = 203

\* ------------------------------------------------------ the rates, again

\* r tenths of a percent is s / n * 100 rounded to one decimal place: it is
\* no further from it than half a tenth.
IsRounded(r, s, n) ==
    /\ 0 <= r /\ r <= 1000
    /\ 2 * (r * n - 1000 * s) <= n
    /\ 2 * (1000 * s - r * n) <= n

\* C17: the rate test_category prints for a non-empty category, the overall
\* rate and the rate of every non-empty category in the report are
\* successful / total * 100 rounded to one decimal place, between 0.0 and
\* 100.0; 2 successes of 3 files are reported as 66.7.
C17_RatesRounded ==
    /\ \A k \in DOMAIN summaries :
          LET n == summaries[k].successful + summaries[k].failed
          IN  /\ IsRounded(summaries[k].rate, summaries[k].successful, n)
              /\ (summaries[k].successful = 2 /\ n = 3) => summaries[k].rate = 667
    /\ (report.printed /\ ~report.raised) =>
          /\ IsRounded(report.overall_rate, report.total_successful,
                       report.total_documents)
          /\ (report.total_successful = 2 /\ report.total_documents = 3)
                => report.overall_rate = 667
          /\ \A k \in DOMAIN report.breakdown :
                LET line == report.breakdown[k]
                IN  line.total > 0 =>
                        /\ IsRounded(line.success_rate, line.successful, line.total)
                        /\ (line.successful = 2 /\ line.total = 3)
                              => line.success_rate = 667

\* C17's case: test_category has printed 66.7 for a category of three files
\* of which two succeeded.
C17_Witness ==
    /\ summaries # <<>>
    /\ summaries[1].successful = 2
    /\ summaries[1].failed = 1
    /\ summaries[1].rate = 667

\* ------------------------------------- the conversions, call by call

\* The outcome of the call in progress: what the converter was asked last.
OutcomeInProgress ==
    LET kind == convert_log[Len(convert_log)].outcome
        file == FileAt(listing, convert_log[Len(convert_log)].file_name)
    IN  CHOOSE outcome \in ConverterOutcomes(file) : outcome.kind = kind

\* Line 101: test_document_conversion calls converter.convert on the next
\* file of the category and waits for it.
ConverterCall ==
    /\ pc = "convert"
    /\ cat_i <= Len(documents)
    /\ doc_i <= Len(documents[cat_i].docs)
    /\ \E outcome \in ConverterOutcomes(FileAt(listing,
                                                documents[cat_i].docs[doc_i].name)) :
          convert_log' = Append(convert_log,
                                [file_name |-> documents[cat_i].docs[doc_i].name,
                                 outcome |-> outcome.kind])
    /\ pc' = "converting"
    /\ UNCHANGED <<env, report_file, documents, cat_i, doc_i, results, all_results,
                   cli_test_files, cli_i, cli_results, cli_log, summaries, report,
                   raised_in, exit_code, clock>>

\* The mutant of ConverterReturn that goes on to the next file and leaves
\* the record for later.
ConverterReturnDeferred ==
    /\ pc = "converting"
    /\ doc_i' = doc_i + 1
    /\ pc' = "convert"
    /\ UNCHANGED <<env, report_file, documents, cat_i, results, all_results,
                   convert_log, cli_test_files, cli_i, cli_results, cli_log,
                   summaries, report, raised_in, exit_code, clock>>

\* Lines 104-146 and 157-158: the call has returned or raised, the record
\* is made and appended to the results, and the loop goes to the next file.
ConverterReturn ==
    /\ pc = "converting"
    /\ results' = Append(results,
                         ConversionRecord(documents[cat_i].docs[doc_i],
                                          documents[cat_i].category,
                                          OutcomeInProgress, clock))
    /\ doc_i' = doc_i + 1
    /\ clock' = clock + 1
    /\ pc' = "convert"
    /\ UNCHANGED <<env, report_file, documents, cat_i, all_results, convert_log,
                   cli_test_files, cli_i, cli_results, cli_log, summaries, report,
                   raised_in, exit_code>>

\* Documents of two categories, two of them of one.
PoolSequential == {EntryReportDocx, EntryDataCsv, EntryMemoDocx}

InitSequential ==
    /\ import_ok = TRUE
    /\ dir_state = "ok"
    /\ listing \in Listings(PoolSequential)
    /\ report_file = PreviousFile
    /\ SetupIdle
    /\ pc = "start"
    /\ clock = 0
    /\ MainIdle

NextSequential ==
    \/ TestDoclingImport
    \/ GetTestDocuments
    \/ ConverterCall
    \/ ConverterReturn
    \/ TestCategorySummary
    \/ TestCliInterface
    \/ CliInvoke
    \/ GenerateReport
    \/ SaveResults

SpecSequential == InitSequential /\ [][NextSequential]_vars

\* The place in the directory listing of the file of a name.
ListedAt(name) == CHOOSE i \in DOMAIN listing : listing[i].name = name

\* The place in the listing of the first file of the category of a name.
CategoryFirstAt(name) ==
    CHOOSE i \in DOMAIN listing :
        /\ IsFile(listing[i])
        /\ Classify(listing[i].name) = Classify(name)
        /\ \A j \in 1..(i - 1) :
              IsFile(listing[j]) => Classify(listing[j].name) # Classify(name)

\* C20: at most one call of the converter is in progress, and one is exactly
\* while test_document_conversion waits for it; every earlier call has its
\* record, in the order of the calls; and the calls go category by category
\* in the order the scan met the categories, and within a category in the
\* order the scan met the files.
C20_Sequential ==
    LET recs == AllRecords
        in_progress == Len(convert_log) - Len(recs)
    IN  /\ in_progress \in {0, 1}
        /\ in_progress = 1 <=> pc = "converting"
        /\ \A k \in DOMAIN recs : recs[k].file_name = convert_log[k].file_name
        /\ \A k, m \in DOMAIN convert_log :
              k < m =>
                  LET a == convert_log[k].file_name
                      b == convert_log[m].file_name
                  IN  \/ CategoryFirstAt(a) < CategoryFirstAt(b)
                      \/ /\ CategoryFirstAt(a) = CategoryFirstAt(b)
                         /\ ListedAt(a) < ListedAt(b)

\* C20's case: the directory lists report.docx, data.csv, memo.docx; the
\* two word documents were converted and recorded, and the call on data.csv
\* is in progress.
C20_Witness ==
    /\ pc = "converting"
    /\ listing = <<EntryReportDocx, EntryDataCsv, EntryMemoDocx>>
    /\ Len(convert_log) = 3
    /\ Len(AllRecords) = 2
    /\ AllRecords[2].file_name = EntryMemoDocx.name
    /\ convert_log[3].file_name = EntryDataCsv.name

\* ------------------------------------------------- setup_test_env.py

\* a < b on Python tuples of integers: the first place where they differ
\* decides, and a proper prefix is less.
TupleLess(a, b) ==
    LET n == IF Len(a) < Len(b) THEN Len(a) ELSE Len(b)
    IN  \/ \E i \in 1..n : a[i] < b[i] /\ \A j \in 1..(i - 1) : a[j] = b[j]
        \/ Len(a) < Len(b) /\ \A j \in 1..n : a[j] = b[j]

\* The version the script asks for, line 35.
RequiredVersion == <<3, 9>>

PythonVersions ==
    {<<2, 7, 18>>, <<3, 6, 9>>, <<3, 8, 20>>, <<3, 9, 0>>, <<3, 10, 1>>,
     <<3, 12, 3>>, <<4, 0, 0>>}

\* What subprocess.run(..., check=True) can do in run_command: return, raise
\* CalledProcessError, which run_command catches, or raise something else,
\* which nothing catches.
CommandOutcomes == {"ok", "CalledProcessError", "raises"}

\* The script is started: the test suite is not.
InitSetup ==
    /\ import_ok = FALSE
    /\ dir_state = "missing"
    /\ listing = <<>>
    /\ report_file = PreviousFile
    /\ pc = "start"
    /\ clock = 0
    /\ MainIdle
    /\ python_version \in PythonVersions
    /\ venv_exists \in BOOLEAN
    /\ setup_pc = "version"
    /\ setup_log = <<>>
    /\ setup_exit = <<>>

main_vars == <<import_ok, dir_state, listing, report_file, pc, documents, cat_i,
               doc_i, results, all_results, convert_log, cli_test_files, cli_i,
               cli_results, cli_log, summaries, report, raised_in, exit_code,
               clock>>

\* Lines 99-101: sys.exit(0 if success else 1).
SetupReturn(success) ==
    /\ setup_pc' = "done"
    /\ setup_exit' = <<IF success THEN 0 ELSE 1>>

\* Lines 34-37.
CheckVersion ==
    /\ setup_pc = "version"
    /\ IF TupleLess(python_version, RequiredVersion)
       THEN SetupReturn(FALSE)
       ELSE setup_pc' = "venv" /\ UNCHANGED setup_exit
    /\ UNCHANGED <<main_vars, python_version, venv_exists, setup_log>>

\* The mutant of RunStep that goes on to the next step whatever run_command
\* returned.
RunStepIgnoringFailure(step, next) ==
    \E outcome \in CommandOutcomes :
        /\ setup_log' = Append(setup_log, [step |-> step, outcome |-> outcome])
        /\ IF outcome = "raises"
           THEN setup_pc' = "crashed" /\ setup_exit' = <<1>>
           ELSE IF next = "done" THEN SetupReturn(TRUE)
           ELSE setup_pc' = next /\ UNCHANGED setup_exit

\* success = run_command(...); if not success: return False. An exception
\* run_command does not catch ends the script with code 1. After the last
\* step main returns True.
RunStep(step, next) ==
    \E outcome \in CommandOutcomes :
        /\ setup_log' = Append(setup_log, [step |-> step, outcome |-> outcome])
        /\ CASE outcome = "ok" ->
                    IF next = "done" THEN SetupReturn(TRUE)
                    ELSE setup_pc' = next /\ UNCHANGED setup_exit
             [] outcome = "CalledProcessError" -> SetupReturn(FALSE)
             [] OTHER -> setup_pc' = "crashed" /\ setup_exit' = <<1>>

\* Lines 40-46.
CreateVenv ==
    /\ setup_pc = "venv"
    /\ IF venv_exists
       THEN setup_pc' = "pip" /\ UNCHANGED <<setup_log, setup_exit>>
       ELSE RunStep("venv", "pip")
    /\ UNCHANGED <<main_vars, python_version, venv_exists>>

\* Lines 59-61.
UpgradePip ==
    /\ setup_pc = "pip"
    /\ RunStep("pip", "wheel")
    /\ UNCHANGED <<main_vars, python_version, venv_exists>>

\* Lines 64-66.
InstallWheel ==
    /\ setup_pc = "wheel"
    /\ RunStep("wheel", "docling")
    /\ UNCHANGED <<main_vars, python_version, venv_exists>>

\* Lines 69-71.
InstallDocling ==
    /\ setup_pc = "docling"
    /\ RunStep("docling", "requirements")
    /\ UNCHANGED <<main_vars, python_version, venv_exists>>

\* Lines 74-76.
InstallRequirements ==
    /\ setup_pc = "requirements"
    /\ RunStep("requirements", "import")
    /\ UNCHANGED <<main_vars, python_version, venv_exists>>

\* Lines 79-97.
TestImport ==
    /\ setup_pc = "import"
    /\ RunStep("import", "done")
    /\ UNCHANGED <<main_vars, python_version, venv_exists>>

NextSetup ==
    \/ CheckVersion
    \/ CreateVenv
    \/ UpgradePip
    \/ InstallWheel
    \/ InstallDocling
    \/ InstallRequirements
    \/ TestImport

SpecSetup == InitSetup /\ [][NextSetup]_vars

\* The steps in their order, the first one left out when the venv exists.
StepOrder ==
    IF venv_exists
    THEN <<"pip", "wheel", "docling", "requirements", "import">>
    ELSE <<"venv", "pip", "wheel", "docling", "requirements", "import">>

\* C27: the commands run are the first ones of the fixed order venv (not
\* when docling_test_env exists), pip, wheel, docling, requirements, import;
\* none is run after one that did not succeed, and none at all under a
\* Python older than 3.9; and the exit code is 0 exactly when the Python is
\* 3.9 or newer and every step of the order was run and succeeded, 1
\* otherwise.
C27_SetupOrderAndExit ==
    LET at_least_3_9 == \/ python_version[1] > 3
                        \/ python_version[1] = 3 /\ python_version[2] >= 9
    IN  /\ Len(setup_log) <= Len(StepOrder)
        /\ \A k \in DOMAIN setup_log :
              /\ setup_log[k].step = StepOrder[k]
              /\ k < Len(setup_log) => setup_log[k].outcome = "ok"
        /\ ~at_least_3_9 => setup_log = <<>>
        /\ setup_exit # <<>> <=> setup_pc \in {"done", "crashed"}
        /\ setup_exit # <<>> =>
              /\ setup_exit[1] \in {0, 1}
              /\ setup_exit[1] = 0
                    <=> /\ at_least_3_9
                        /\ \A k \in DOMAIN setup_log : setup_log[k].outcome = "ok"
              /\ setup_exit[1] = 0 => Len(setup_log) = Len(StepOrder)

\* C27's case: the venv exists, pip and wheel were installed, installing
\* docling failed, and the script has ended with code 1 after three commands.
C27_Witness ==
    /\ venv_exists
    /\ setup_exit = <<1>>
    /\ Len(setup_log) = 3
    /\ setup_log[1].step = "pip"
    /\ setup_log[3].step = "docling"
    /\ setup_log[3].outcome = "CalledProcessError"

\* ------------------------------------------------- a run to its end

\* A directory of a regular file, a csv the CLI test takes, a symbolic link
\* to a file and a subdirectory, in every order.
PoolLive == {EntryReportDocx, EntryDataCsv, EntryScanLinkPng, EntryArchive}

InitLive ==
    /\ import_ok \in BOOLEAN
    /\ dir_state \in {"missing", "unlistable", "ok"}
    /\ listing \in Listings(PoolLive)
    /\ dir_state # "ok" => listing = <<>>
    /\ report_file = PreviousFile
    /\ SetupIdle
    /\ pc = "start"
    /\ clock = 0
    /\ MainIdle

\* main is one sequential process that nothing suspends: while a step of it
\* can be taken, one is taken. For the converter and the CLI call this is
\* that each call returns, raises or times out.
SpecLive == InitLive /\ [][Next]_vars /\ WF_vars(Next)

\* The steps main can take from one position to the next.
PhaseEdges ==
    {<<"start", "scan">>, <<"start", "done">>,
     <<"scan", "convert">>, <<"scan", "done">>, <<"scan", "crashed">>,
     <<"convert", "convert">>, <<"convert", "cli">>,
     <<"cli", "cli_run">>, <<"cli", "report">>,
     <<"cli_run", "cli_run">>, <<"cli_run", "report">>,
     <<"report", "save">>,
     <<"save", "done">>, <<"save", "crashed">>}

\* Every file of the scan has an outcome record, Success or Failed.
EveryFileSettled ==
    \A i \in FilesAndLinks : Outcome(listing[i].name) \in {"Success", "Failed"}

\* C22: main goes through import check, scan, conversions, CLI exercise,
\* report and save in this order and never back; when the report is
\* generated, and when it is saved, every scanned file has reached Success
\* or Failed; and, every call returning, raising or timing out, a run whose
\* scan found a file reaches the save step.
C22_PhasesInOrder ==
    /\ []((pc \in {"report", "save"} \/ report.printed \/ report_file # PreviousFile)
            => EveryFileSettled)
    /\ [][(<<pc, pc'>> \in PhaseEdges)]_vars
    /\ (pc = "convert" /\ documents # <<>>) ~> (pc = "save")

\* C22's case: the save step is reached after a conversion that failed, one
\* that succeeded and a CLI call.
C22_Witness ==
    /\ pc = "save"
    /\ \E k \in DOMAIN convert_log : convert_log[k].outcome = "ok"
    /\ \E k \in DOMAIN convert_log : convert_log[k].outcome # "ok"
    /\ cli_log # <<>>
    /\ Len(documents) >= 2

\* C26: when docling cannot be imported, main ends at once: no scan, no
\* call of the converter, no CLI call, no report, and the report file is as
\* it was.
C26_ImportFailureStopsMain ==
    ~import_ok =>
        /\ pc \in {"start", "done"}
        /\ documents = <<>>
        /\ convert_log = <<>>
        /\ cli_test_files = <<>>
        /\ cli_log = <<>>
        /\ report = NoReport
        /\ report_file = PreviousFile
        /\ raised_in = "none"

\* C26's case: the import failed and main has returned, with a file and a
\* csv in the directory.
C26_Witness ==
    /\ ~import_ok
    /\ pc = "done"
    /\ dir_state = "ok"
    /\ \E i \in DOMAIN listing : listing[i] = EntryReportDocx
    /\ \E i \in DOMAIN listing : listing[i] = EntryDataCsv

\* What C24 says of the denominators: every category of the scan and of
\* all_results has a file, test_category's division is reached with a
\* record in its list, generate_kmrl_report is reached with a total of one
\* or more, and neither division has raised.
DenominatorsNeverZero ==
    /\ \A k \in DOMAIN documents : Len(documents[k].docs) >= 1
    /\ \A k \in DOMAIN all_results : Len(all_results[k].results) >= 1
    /\ (pc = "convert" /\ doc_i > Len(documents[cat_i].docs)) => Len(results) >= 1
    /\ pc = "report" => TotalDocuments(all_results) >= 1
    /\ report.printed => ~report.raised /\ report.total_documents >= 1
    /\ raised_in \notin {"test_category", "generate_kmrl_report"}

\* main has stopped before any conversion, report or save.
StoppedBeforeConversions ==
    /\ pc \in {"start", "scan", "done", "crashed"}
    /\ documents = <<>>
    /\ convert_log = <<>>
    /\ cli_log = <<>>
    /\ report = NoReport
    /\ report_file = PreviousFile

C25_OneCliRecordPerFile ==
    /\ Len(cli_results) = Len(cli_log)
    /\ Len(cli_results) <= Len(cli_test_files)
    /\ pc \in {"report", "save", "done", "crashed"} =>
          Len(cli_results) = Len(cli_test_files)
    /\ \A k \in DOMAIN cli_results :
          LET r == cli_results[k]
              o == cli_log[k].outcome
          IN  /\ r.file_name = cli_test_files[k].name
              /\ cli_log[k].file_name = cli_test_files[k].name
              /\ r.cli_successful <=> o.kind = "ok"
              /\ o.kind = "nonzero" =>
                    /\ {"error", "return_code"} \subseteq DOMAIN r
                    /\ r.error = o.message
                    /\ r.return_code # 0
              /\ o.kind \in {"timeout", "exception"} =>
                    /\ "error" \in DOMAIN r
                    /\ "return_code" \notin DOMAIN r

\* C25's case: three files were selected, the first call returned a
\* non-zero code, the second raised, the third returned 0, and
\* test_cli_interface has returned its three records.
C25_Witness ==
    /\ pc = "report"
    /\ Len(cli_results) = 3
    /\ cli_log[1].outcome.kind = "nonzero"
    /\ cli_log[2].outcome.kind = "exception"
    /\ cli_log[3].outcome.kind = "ok"

\* C23: in the report on disk, of this run or of the run before, the
\* successful and the failed counts of the summary add up to total_documents,
\* total_documents is the number of records in the per-category lists, and
\* the three figures are those generate_kmrl_report prints for the same
\* results; the report printed in the run that saved the file has them.
C23_SavedTotalsAddUp ==
    report_file.data # <<>> =>
        LET saved   == report_file.data[1]
            records == RecordsFrom(saved.categories, 1)
            printed == GenerateKmrlReport(saved.categories, saved.cli_results)
        IN  /\ saved.summary.total_successful + saved.summary.total_failed
                  = saved.total_documents
            /\ saved.total_documents = Len(records)
            /\ saved.summary.total_successful
                  = Cardinality({k \in DOMAIN records : records[k].conversion_successful})
            /\ ~printed.raised
            /\ printed.total_documents = saved.total_documents
            /\ printed.total_successful = saved.summary.total_successful
            /\ printed.total_failed = saved.summary.total_failed
            /\ report_file.status = "new" => report = printed

\* C23's case: a saved report of two categories in which both files of one
\* category failed and a file of the other succeeded.
C23_Witness ==
    /\ report_file.status = "new"
    /\ report_file.data # <<>>
    /\ Len(report_file.data[1].categories) >= 2
    /\ report_file.data[1].summary.total_failed = 2
    /\ report_file.data[1].summary.total_successful = 1
    /\ \E i \in DOMAIN report_file.data[1].categories :
          LET rs == report_file.data[1].categories[i].results
          IN  Len(rs) = 2 /\ \A j \in DOMAIN rs : ~rs[j].conversion_successful

\* --------------------------------- the same files in another order

\* The orders iterdir can yield the entries of l in.
OrdersOf(l) ==
    {m \in [DOMAIN l -> {l[i] : i \in DOMAIN l}] :
        \A i \in DOMAIN l : \E j \in DOMAIN l : m[j] = l[i]}

InitPermuted ==
    /\ import_ok = TRUE
    /\ dir_state = "ok"
    /\ listing \in Listings(PoolSequential)
    /\ report_file = PreviousFile
    /\ SetupIdle
    /\ pc = "start"
    /\ clock = 0
    /\ MainIdle

\* Lines 419-420 a second time, on the same files: iterdir yields them in
\* an order of its own, which need not be that of the run before.
RunAgainPermuted ==
    /\ pc = "done"
    /\ report_file.status = "new"
    /\ Len(convert_log) <= Len(listing)
    /\ listing' \in OrdersOf(listing)
    /\ report_file' = [status |-> "previous", data |-> report_file.data]
    /\ pc' = "start"
    /\ documents' = <<>>
    /\ cat_i' = 1
    /\ doc_i' = 1
    /\ results' = <<>>
    /\ all_results' = <<>>
    /\ cli_test_files' = <<>>
    /\ cli_i' = 1
    /\ cli_results' = <<>>
    /\ summaries' = <<>>
    /\ report' = NoReport
    /\ raised_in' = "none"
    /\ exit_code' = <<>>
    /\ UNCHANGED <<import_ok, dir_state, python_version, venv_exists, setup_pc,
                   setup_log, setup_exit, convert_log, cli_log, clock>>

NextPermuted ==
    \/ TestDoclingImport
    \/ GetTestDocuments
    \/ TestDocumentConversion /\ FixedOutputs'
    \/ TestCategorySummary
    \/ TestCliInterface
    \/ CliInvoke /\ FixedOutputs'
    \/ GenerateReport
    \/ SaveResults
    \/ RunAgainPermuted

SpecPermuted == InitPermuted /\ [][NextPermuted]_vars

\* What the records rs say of each file: its category and whether its
\* conversion succeeded.
FileOutcomes(rs) ==
    {[file_name |-> rs[k].file_name, category |-> rs[k].category,
      conversion_successful |-> rs[k].conversion_successful] : k \in DOMAIN rs}

\* The successful and failed counts of each category of the dict ar.
CategoryCounts(ar) ==
    {[category |-> ar[i].category,
      successful |-> Cardinality({j \in DOMAIN ar[i].results :
                                     ar[i].results[j].conversion_successful}),
      failed |-> Cardinality({j \in DOMAIN ar[i].results :
                                 ~ar[i].results[j].conversion_successful})] :
        i \in DOMAIN ar}

\* The second run has printed its report, the report of the first run
\* being on disk.
SecondReportPrinted ==
    /\ pc = "save"
    /\ report_file.status = "previous"
    /\ report_file.data # <<>>

\* C21: of the same files listed in another order, the converter giving a
\* file the same result each time, the second run gives each file the
\* category and the outcome the first run gave it, the same successful and
\* failed counts per category and overall, and the same readiness judgment.
C21_OrderDoesNotMatter ==
    SecondReportPrinted =>
        LET first == report_file.data[1]
            before == GenerateKmrlReport(first.categories, first.cli_results)
        IN  /\ FileOutcomes(RecordsFrom(all_results, 1))
                  = FileOutcomes(RecordsFrom(first.categories, 1))
            /\ Len(RecordsFrom(all_results, 1)) = Len(RecordsFrom(first.categories, 1))
            /\ CategoryCounts(all_results) = CategoryCounts(first.categories)
            /\ Len(all_results) = Len(first.categories)
            /\ report.total_documents = first.total_documents
            /\ report.total_successful = first.summary.total_successful
            /\ report.total_failed = first.summary.total_failed
            /\ report.overall_rate = before.overall_rate
            /\ report.critical_success = before.critical_success
            /\ report.recommendation = before.recommendation

\* C21's case: the second run met the categories in another order than the
\* first, a category of two files among them, one file failing.
C21_Witness ==
    /\ SecondReportPrinted
    /\ all_results[1].category # report_file.data[1].categories[1].category
    /\ \E i \in DOMAIN all_results : Len(all_results[i].results) = 2
    /\ report.total_failed = 1
    /\ report.total_documents = 3

====
